---- MODULE Spec2Model ----
(***************************************************************************)
(* Patent semantic search: the document normaliser (DataProcessor), the    *)
(* retrieval service over the persistent vector index (SearchService), the *)
(* synthesis service with its extractive fallback (SummarizationService)   *)
(* and the request surface (app.py).                                       *)
(*                                                                         *)
(* Text is a sequence of one-character strings, so that strip, split,      *)
(* join, slicing and endswith are computed as Python computes them.        *)
(***************************************************************************)
EXTENDS Integers, Sequences, FiniteSets, TLC

(***************************************************************************)
(* Python str helpers                                                      *)
(***************************************************************************)

\* c * n
Rep(c, n) == [i \in 1..n |-> c]

\* str.isspace() for one character
IsSpace(c) == c \in {" ", "\n", "\t"}

\* the first index at or after i that holds no whitespace (Len(s) + 1 if none)
RECURSIVE SkipSpacesRight(_, _)
SkipSpacesRight(s, i) ==
   IF i <= Len(s) /\ IsSpace(s[i]) THEN SkipSpacesRight(s, i + 1) ELSE i

\* the last index at or before i that holds no whitespace (0 if none)
RECURSIVE SkipSpacesLeft(_, _)
SkipSpacesLeft(s, i) ==
   IF i >= 1 /\ IsSpace(s[i]) THEN SkipSpacesLeft(s, i - 1) ELSE i

\* str.strip(): whitespace removed from both ends
Strip(s) == SubSeq(s, SkipSpacesRight(s, 1), SkipSpacesLeft(s, Len(s)))

\* sep.join(parts)
RECURSIVE Join(_, _)
Join(sep, parts) ==
   IF parts = << >> THEN << >>
   ELSE IF Len(parts) = 1 THEN parts[1]
   ELSE parts[1] \o sep \o Join(sep, Tail(parts))

\* str.endswith(suffix)
EndsWith(s, suffix) ==
   /\ Len(s) >= Len(suffix)
   /\ SubSeq(s, Len(s) - Len(suffix) + 1, Len(s)) = suffix

\* text.split('. '): left to right, non-overlapping occurrences of ". "
RECURSIVE SplitSentences(_)
SplitSentences(text) ==
   LET hits == {i \in 1..(Len(text) - 1) : text[i] = "." /\ text[i + 1] = " "}
   IN  IF hits = {} THEN << text >>
       ELSE LET i == CHOOSE h \in hits : \A g \in hits : h <= g
            IN  << SubSeq(text, 1, i - 1) >>
                   \o SplitSentences(SubSeq(text, i + 2, Len(text)))

(***************************************************************************)
(* SummarizationService                                                    *)
(***************************************************************************)

NoDescriptionsMsg ==
   << "N", "o", " ", "d", "e", "s", "c", "r", "i", "p", "t", "i", "o", "n", "s", " ", "a",
      "v", "a", "i", "l", "a", "b", "l", "e", " ", "f", "o", "r", " ", "s", "u", "m", "m",
      "a", "r", "i", "z", "a", "t", "i", "o", "n", "." >>

NoValidMsg ==
   << "N", "o", " ", "v", "a", "l", "i", "d", " ", "d", "e", "s", "c", "r", "i", "p", "t",
      "i", "o", "n", "s", " ", "f", "o", "u", "n", "d", " ", "f", "o", "r", " ", "s", "u",
      "m", "m", "a", "r", "i", "z", "a", "t", "i", "o", "n", "." >>

fallback_note ==
   << "\n", "\n", "[", "N", "o", "t", "e", ":", " ", "T", "h", "i", "s", " ", "s", "u",
      "m", "m", "a", "r", "y", " ", "w", "a", "s", " ", "g", "e", "n", "e", "r", "a", "t",
      "e", "d", " ", "u", "s", "i", "n", "g", " ", "a", " ", "s", "i", "m", "p", "l", "e",
      " ", "e", "x", "t", "r", "a", "c", "t", "i", "o", "n", " ", "m", "e", "t", "h", "o",
      "d", ".", " ", "F", "o", "r", " ", "b", "e", "t", "t", "e", "r", " ", "s", "u", "m",
      "m", "a", "r", "i", "e", "s", ",", " ", "e", "n", "s", "u", "r", "e", " ", "G", "r",
      "o", "q", " ", "i", "s", " ", "a", "v", "a", "i", "l", "a", "b", "l", "e", ".", "]" >>

FallbackErrorPrefix ==
   << "E", "r", "r", "o", "r", " ", "g", "e", "n", "e", "r", "a", "t", "i", "n", "g", " ",
      "f", "a", "l", "l", "b", "a", "c", "k", " ", "s", "u", "m", "m", "a", "r", "y", ":",
      " " >>


\* "\n\n", the separator between the non-empty descriptions
BlankLine == << "\n", "\n" >>

\* the character budget of the prompt sent to the provider
max_chars == 8000

\* the character budget of the extractive fallback
max_length == 500

Ellipsis == << ".", ".", "." >>

\* the text put into the prompt: cut to max_chars with "..." appended
PromptText(text) ==
   IF Len(text) > max_chars THEN SubSeq(text, 1, max_chars) \o Ellipsis ELSE text

\* _summarize_with_groq: the provider either answers with a completion, whose
\* content is stripped, or the call raises (transport, auth, quota), or the
\* response is malformed (no choices, content None) and reading it raises.
summarize_with_groq(text, behaviour) ==
   IF behaviour.kind = "ok"
   THEN [raised |-> FALSE, value |-> Strip(behaviour.content), sent |-> PromptText(text)]
   ELSE [raised |-> TRUE, value |-> << >>, sent |-> PromptText(text)]

\* the for loop of _simple_summarization: sentences are taken while the running
\* length stays under max_length; the first one that does not fit ends the loop
RECURSIVE Accumulate(_, _, _, _)
Accumulate(sentences, k, summary_sentences, current_length) ==
   IF k > Len(sentences) THEN summary_sentences
   ELSE IF current_length + Len(sentences[k]) < max_length
   THEN Accumulate(sentences, k + 1, Append(summary_sentences, Strip(sentences[k])),
                   current_length + Len(sentences[k]))
   ELSE summary_sentences

\* _simple_summarization without the terminal period
simple_summarization_no_period(text, fault) ==
   IF fault THEN [raised |-> FALSE, value |-> FallbackErrorPrefix \o << "e" >>]
   ELSE [raised |-> FALSE,
         value |-> Join(<< ".", " " >>, Accumulate(SplitSentences(text), 1, << >>, 0))
                      \o fallback_note]

\* _simple_summarization with the except clause left out
simple_summarization_no_except(text, fault) ==
   IF fault THEN [raised |-> TRUE, value |-> << >>]
   ELSE LET joined == Join(<< ".", " " >>, Accumulate(SplitSentences(text), 1, << >>, 0))
            summary == IF EndsWith(joined, << "." >>) THEN joined ELSE joined \o << "." >>
        IN  [raised |-> FALSE, value |-> summary \o fallback_note]

\* _simple_summarization: fault is an exception raised inside the try block,
\* which the except clause turns into the error-description string
simple_summarization(text, fault) ==
   IF fault THEN [raised |-> FALSE, value |-> FallbackErrorPrefix \o << "e" >>]
   ELSE LET joined == Join(<< ".", " " >>, Accumulate(SplitSentences(text), 1, << >>, 0))
            summary == IF EndsWith(joined, << "." >>) THEN joined ELSE joined \o << "." >>
        IN  [raised |-> FALSE, value |-> summary \o fallback_note]

\* the descriptions that pass "if desc"
NonEmpty(desc) == desc # << >>

\* summarize_descriptions with the blank test done without strip()
summarize_descriptions_no_strip(descs, behaviour, fault) ==
   IF descs = << >>
   THEN [raised |-> FALSE, value |-> NoDescriptionsMsg, groq |-> 0, fallback |-> 0,
         sent |-> << >>]
   ELSE LET combined_text == Join(BlankLine, SelectSeq(descs, NonEmpty))
        IN  IF combined_text = << >>
            THEN [raised |-> FALSE, value |-> NoValidMsg, groq |-> 0, fallback |-> 0,
                  sent |-> << >>]
            ELSE LET g == summarize_with_groq(combined_text, behaviour)
                     f == simple_summarization(combined_text, fault)
                 IN  IF ~g.raised
                     THEN [raised |-> FALSE, value |-> g.value, groq |-> 1,
                           fallback |-> 0, sent |-> g.sent]
                     ELSE [raised |-> f.raised, value |-> f.value, groq |-> 1,
                           fallback |-> 1, sent |-> g.sent]

\* summarize_descriptions: the two sentinel returns, the provider call and the
\* fallback on any exception of it.  groq and fallback count the calls made.
summarize_descriptions(descs, behaviour, fault) ==
   IF descs = << >>
   THEN [raised |-> FALSE, value |-> NoDescriptionsMsg, groq |-> 0, fallback |-> 0,
         sent |-> << >>]
   ELSE LET combined_text == Join(BlankLine, SelectSeq(descs, NonEmpty))
        IN  IF Strip(combined_text) = << >>
            THEN [raised |-> FALSE, value |-> NoValidMsg, groq |-> 0, fallback |-> 0,
                  sent |-> << >>]
            ELSE LET g == summarize_with_groq(combined_text, behaviour)
                     f == simple_summarization(combined_text, fault)
                 IN  IF ~g.raised
                     THEN [raised |-> FALSE, value |-> g.value, groq |-> 1,
                           fallback |-> 0, sent |-> g.sent]
                     ELSE [raised |-> f.raised, value |-> f.value, groq |-> 1,
                           fallback |-> 1, sent |-> g.sent]

(***************************************************************************)
(* DataProcessor                                                           *)
(*                                                                         *)
(* Markup is a sequence of tokens: one-character strings and whole tags.   *)
(* A JSON value that should be an object is [isDict, ...]; isDict = FALSE  *)
(* is a value of another type, on which .get raises AttributeError.        *)
(***************************************************************************)

Tags == {"<p>", "</p>", "<b>", "</b>", "<br/>"}

IsText(tok) == tok \notin Tags

\* the indexes 1..n as a sequence
Indexes(n) == [i \in 1..n |-> i]

\* re.sub(r'\s+', ' ', t).strip(): every whitespace run becomes one space and
\* the ends are trimmed.  A whitespace character is kept (as a space) when it
\* opens a run that follows text; the run at the end is trimmed by Strip.
CollapseWhitespace(t) ==
   LET Kept(i) == ~IsSpace(t[i]) \/ (i > 1 /\ ~IsSpace(t[i - 1]))
       kept == SelectSeq(Indexes(Len(t)), Kept)
   IN  Strip([k \in 1..Len(kept) |-> IF IsSpace(t[kept[k]]) THEN " " ELSE t[kept[k]]])

\* clean_html_content: "" for empty content, else the text outside the tags
\* with the whitespace collapsed
clean_html_content(content) ==
   IF content = << >> THEN << >>
   ELSE CollapseWhitespace(SelectSeq(content, IsText))

\* the number of claims taken from the first claims group: claims_list[:5]
MaxClaims == 5

\* the description budget: description_text[:2000]
MaxDescription == 2000

\* the description is cut but the marker is not appended
TruncateDescriptionNoMarker(text) ==
   IF Len(text) > MaxDescription THEN SubSeq(text, 1, MaxDescription) ELSE text

\* description_text[:2000] + "..." if len(description_text) > 2000 else description_text
TruncateDescription(text) ==
   IF Len(text) > MaxDescription THEN SubSeq(text, 1, MaxDescription) \o Ellipsis ELSE text

\* patent_json.get(key, [])'s first element is not an object
FirstNotDict(items) == items # << >> /\ ~items[1].isDict

\* claims_list[:5]
FirstClaims(group) == SubSeq(group.claims, 1, IF Len(group.claims) < MaxClaims
                                                THEN Len(group.claims) ELSE MaxClaims)

\* a .get on a value that is no object, somewhere in the try block
ExtractRaises(pj) ==
   \/ FirstNotDict(pj.titles)
   \/ FirstNotDict(pj.abstracts)
   \/ FirstNotDict(pj.claims)
   \/ /\ pj.claims # << >>
      /\ pj.claims[1].isDict
      /\ \E k \in 1..Len(FirstClaims(pj.claims[1])) : ~FirstClaims(pj.claims[1])[k].isDict
   \/ FirstNotDict(pj.descriptions)

\* the record extract_patent_data builds when nothing raises
ExtractedRecord(pj) ==
   LET title == IF pj.titles # << >> THEN pj.titles[1].value ELSE << >>
       abstract_text == IF pj.abstracts # << >>
                        THEN clean_html_content(pj.abstracts[1].value) ELSE << >>
       claims_list == IF pj.claims # << >> THEN FirstClaims(pj.claims[1]) ELSE << >>
       claims_text == Join(<< " " >>, [k \in 1..Len(claims_list) |->
                                         clean_html_content(claims_list[k].value)])
       description_text == IF pj.descriptions # << >>
                           THEN TruncateDescription(clean_html_content(pj.descriptions[1].value))
                           ELSE << >>
   IN  [patent_number   |-> pj.patent_number,
        title           |-> title,
        abstract        |-> abstract_text,
        claims          |-> claims_text,
        description     |-> description_text,
        searchable_text |-> Strip(abstract_text \o << " " >> \o claims_text)]

NoRecord ==
   [patent_number |-> "", title |-> << >>, abstract |-> << >>, claims |-> << >>,
    description |-> << >>, searchable_text |-> << >>]

\* extract_patent_data: the record; None when a step raises; and when the JSON
\* document is no object at all, the except clause's own patent_json.get raises
\* and the exception leaves the function
extract_patent_data(pj) ==
   IF pj.shape # "object" THEN [kind |-> "raise", doc |-> NoRecord]
   ELSE IF ExtractRaises(pj) THEN [kind |-> "none", doc |-> NoRecord]
   ELSE [kind |-> "doc", doc |-> ExtractedRecord(pj)]

\* SentenceTransformer.encode(text).tolist(): the vector of a text, kept as the
\* text it encodes (the model is a fixed function of the text)
Encode(text) == [of |-> text]

\* a processed document with its embedding
WithEmbedding(doc) ==
   [patent_number |-> doc.patent_number, title |-> doc.title, abstract |-> doc.abstract,
    claims |-> doc.claims, description |-> doc.description,
    searchable_text |-> doc.searchable_text, embedding |-> Encode(doc.searchable_text)]

\* the body of the for loop without the searchable_text test
ProcessFileKeepEmpty(file) ==
   IF ~file.parse THEN << >>
   ELSE LET processed_doc == extract_patent_data(file)
        IN  IF processed_doc.kind # "doc" THEN << >>
            ELSE IF file.embedFault THEN << >>
            ELSE << WithEmbedding(processed_doc.doc) >>

\* one pass of the for loop of load_and_process_documents: the documents the
\* file adds.  open/json.load, extract_patent_data and encode each may raise;
\* the except clause of the loop prints and continues.
ProcessFile(file) ==
   IF ~file.parse THEN << >>
   ELSE LET processed_doc == extract_patent_data(file)
        IN  IF processed_doc.kind # "doc" THEN << >>
            ELSE IF processed_doc.doc.searchable_text = << >> THEN << >>
            ELSE IF file.embedFault THEN << >>
            ELSE << WithEmbedding(processed_doc.doc) >>

\* the file raises somewhere in the loop body
FileFails(file) ==
   \/ ~file.parse
   \/ extract_patent_data(file).kind = "raise"
   \/ /\ extract_patent_data(file).kind = "doc"
      /\ extract_patent_data(file).doc.searchable_text # << >>
      /\ file.embedFault

\* the for loop ends at the first file that raises
RECURSIVE LoadAbortOnFailure(_)
LoadAbortOnFailure(files) ==
   IF files = << >> THEN << >>
   ELSE IF FileFails(files[1]) THEN << >>
   ELSE ProcessFile(files[1]) \o LoadAbortOnFailure(Tail(files))

\* the for loop of load_and_process_documents over the JSON files
RECURSIVE LoadLoop(_)
LoadLoop(files) ==
   IF files = << >> THEN << >>
   ELSE ProcessFile(files[1]) \o LoadLoop(Tail(files))

\* load_and_process_documents: FileNotFoundError when the data path is
\* missing, else the documents of the files that processed
load_and_process_documents(pathExists, files) ==
   IF ~pathExists THEN [raised |-> TRUE, documents |-> << >>]
   ELSE [raised |-> FALSE, documents |-> LoadLoop(files)]

(***************************************************************************)
(* SearchService over the persistent vector store                          *)
(*                                                                         *)
(* The store is a collection that exists or not and, when it exists, its   *)
(* entries in insertion order.  self.collection is "None" or "bound".      *)
(* Distances and scores are fixed-point: distances in units of 10^-5,      *)
(* scores, rounded to 4 digits, in units of 10^-4.                         *)
(***************************************************************************)

\* the ids of a sequence of documents or entries
Ids(docs) == [k \in 1..Len(docs) |-> docs[k].patent_number]

\* the values of a sequence as a set
Range(s) == {s[k] : k \in 1..Len(s)}

\* the metadata index_documents stores with a document
Metadata(doc) ==
   [patent_number |-> doc.patent_number, title |-> doc.title, abstract |-> doc.abstract,
    claims |-> doc.claims, description |-> doc.description]

\* one entry of the collection: ids[k], embeddings[k], metadatas[k], documents[k]
Entry(doc) ==
   [patent_number |-> doc.patent_number, embedding |-> doc.embedding,
    metadata |-> Metadata(doc), document |-> doc.searchable_text]

\* collection.add(ids, embeddings, metadatas, documents) of the store.  What it
\* does with an empty batch and with an id it already holds depends on the
\* store's version (env): it raises, or it accepts the call and leaves the
\* entries it holds as they are.  Ids repeated within the batch raise.
CollectionAdd(entries, batch, env) ==
   IF batch = << >> /\ env.rejectsEmpty THEN [raised |-> TRUE, entries |-> entries]
   ELSE IF Cardinality(Range(Ids(batch))) # Len(batch)
   THEN [raised |-> TRUE, entries |-> entries]
   ELSE IF env.rejectsExisting /\ Range(Ids(batch)) \cap Range(Ids(entries)) # {}
   THEN [raised |-> TRUE, entries |-> entries]
   ELSE LET New(doc) == doc.patent_number \notin Range(Ids(entries))
        IN  [raised |-> FALSE,
             entries |-> entries \o [k \in 1..Len(SelectSeq(batch, New)) |->
                                       Entry(SelectSeq(batch, New)[k])]]

\* is_indexed without the count: a collection that exists counts as indexed
is_indexed_without_count(collection, entries) == collection # "None"

\* is_indexed: False without a collection, else count() > 0
is_indexed(collection, entries) == collection # "None" /\ Len(entries) > 0

\* index_documents: create the collection when self.collection is None (which
\* raises if the store already holds one of that name), then add the batch;
\* any exception is printed and raised again
index_documents(collection, exists, entries, documents, env) ==
   IF collection = "None" /\ exists
   THEN [raised |-> TRUE, collection |-> collection, exists |-> exists, entries |-> entries]
   ELSE LET added == CollectionAdd(entries, documents, env)
        IN  [raised |-> added.raised, collection |-> "bound", exists |-> TRUE,
             entries |-> added.entries]

\* 1.0 in units of 10^-5
One == 10 * 10000

\* round(x, 4) for x in units of 10^-5, in units of 10^-4: to the nearest, a
\* tie to the even neighbour
Round4(x) ==
   LET q == x \div 10
       r == x % 10
   IN  IF r < 5 THEN q
       ELSE IF r > 5 THEN q + 1
       ELSE IF q % 2 = 0 THEN q ELSE q + 1

\* the score is the rounded distance itself
SimilarityScoreOfDistance(distance) == Round4(distance)

\* similarity_score = 1 - distance; 'score': round(similarity_score, 4)
SimilarityScore(distance) == Round4(One - distance)

\* collection.query(query_embeddings, n_results): the n_results entries nearest
\* to the query, nearest first; dist[k] is the cosine distance of entry k to the
\* query, and entries at equal distance keep their insertion order
CollectionQuery(entries, dist, n_results) ==
   LET Rank(i) == 1 + Cardinality({j \in 1..Len(entries) :
                                     \/ dist[j] < dist[i]
                                     \/ dist[j] = dist[i] /\ j < i})
       At(r) == CHOOSE i \in 1..Len(entries) : Rank(i) = r
       n == IF n_results < Len(entries) THEN n_results ELSE Len(entries)
   IN  [r \in 1..n |-> [metadata |-> entries[At(r)].metadata, distance |-> dist[At(r)]]]

\* one element of search()'s list
SearchResult(match) ==
   [patent_number |-> match.metadata.patent_number, title |-> match.metadata.title,
    abstract |-> match.metadata.abstract, claims |-> match.metadata.claims,
    description |-> match.metadata.description, score |-> SimilarityScore(match.distance)]

\* search() without the test for a missing collection: an empty list instead
search_without_collection_test(collection, entries, top_k, dist, fault) ==
   IF fault \/ top_k <= 0
   THEN [raised |-> TRUE, matches |-> << >>, results |-> << >>]
   ELSE LET matches == CollectionQuery(IF collection = "None" THEN << >> ELSE entries,
                                       dist, top_k)
        IN  [raised |-> FALSE, matches |-> matches,
             results |-> [k \in 1..Len(matches) |-> SearchResult(matches[k])]]

\* search: raises without a collection, when encoding the query or the store's
\* query raises (fault), and for n_results <= 0, which the store rejects; else
\* the matches in the store's order, each with its score
search(collection, entries, top_k, dist, fault) ==
   IF collection = "None" THEN [raised |-> TRUE, matches |-> << >>, results |-> << >>]
   ELSE IF fault \/ top_k <= 0
   THEN [raised |-> TRUE, matches |-> << >>, results |-> << >>]
   ELSE LET matches == CollectionQuery(entries, dist, top_k)
        IN  [raised |-> FALSE, matches |-> matches,
             results |-> [k \in 1..Len(matches) |-> SearchResult(matches[k])]]

(***************************************************************************)
(* The request surface (app.py)                                            *)
(***************************************************************************)

\* search_service.search(query, top_k=3)
TopK == 3

\* DocumentInfo(patent_number, title, relevance_score)
DocumentInfo(result) ==
   [patent_number |-> result.patent_number, title |-> result.title,
    relevance_score |-> result.score]

\* the /search handler.  thrown is what the try block raised: the
\* HTTPException(400) for a blank query, the HTTPException(404) for no
\* results, or another exception of search()/summarize_descriptions(); the
\* handler's "except Exception" catches each of them, HTTPException included,
\* and raises HTTPException(500)
search_endpoint(query, collection, entries, dist, fault, behaviour, fbFault) ==
   LET found == search(collection, entries, TopK, dist, fault)
       descs == [k \in 1..Len(found.results) |-> found.results[k].description]
       synth == summarize_descriptions(descs, behaviour, fbFault)
       thrown == IF Strip(query) = << >> THEN "HTTPException400"
                 ELSE IF found.raised THEN "Exception"
                 ELSE IF found.results = << >> THEN "HTTPException404"
                 ELSE IF synth.raised THEN "Exception"
                 ELSE "none"
   IN  IF thrown = "none"
       THEN [status |-> 200, thrown |-> thrown,
             top_documents |-> [k \in 1..Len(found.results) |->
                                  DocumentInfo(found.results[k])],
             summary |-> synth.value]
       ELSE [status |-> 500, thrown |-> thrown, top_documents |-> << >>,
             summary |-> << >>]

(***************************************************************************)
(* Bounds and input sets                                                   *)
(***************************************************************************)

\* the longest list of descriptions handed to summarize_descriptions
MaxPassages == 2

\* the number of JSON files in the data directory
MaxFiles == 2

\* the longest batch handed to index_documents through the service's API
MaxBatch == 2

\* the largest top_k handed to search through the service's API
MaxTopK == 3

\* every list of at most n elements of S
RECURSIVE ListsUpTo(_, _)
ListsUpTo(S, n) ==
   IF n = 0 THEN { << >> }
   ELSE LET shorter == ListsUpTo(S, n - 1)
        IN  shorter \cup {Append(l, x) : l \in {m \in shorter : Len(m) = n - 1}, x \in S}

\* descriptions: empty, blank, short, several sentences, and first sentences
\* just under, at and over the fallback budget
PassageSet ==
   { << >>,
     << " ", " " >>,
     << "a" >>,
     << " ", "x", " " >>,
     << "A", "b", "." >>,
     << "A", "b", ".", " ", "C", "d" >>,
     << ".", " ", "b" >>,
     Rep("a", max_length - 1),
     Rep("a", max_length - 1) \o << ".", " ", "b" >>,
     Rep("a", max_length) \o << ".", " ", "b" >> }

\* what the generative provider does with one request
ProviderBehaviours ==
   { [kind |-> "ok", content |-> << " ", "S", "u", "m", ".", "\n" >>],
     [kind |-> "ok", content |-> << " " >>],
     [kind |-> "error", content |-> << >>],
     [kind |-> "malformed", content |-> << >>] }

\* a JSON object with one text value
Item(value) == [isDict |-> TRUE, value |-> value]

\* a JSON value of another type where an object is expected
NotADict == [isDict |-> FALSE, value |-> << >>]

\* a claims group {"claims": [...]}
ClaimsGroup(items) == [isDict |-> TRUE, claims |-> items]

\* a patent JSON file
File(id, titles, abstracts, claims, descs) ==
   [parse |-> TRUE, shape |-> "object", embedFault |-> FALSE, patent_number |-> id,
    titles |-> titles, abstracts |-> abstracts, claims |-> claims, descriptions |-> descs]

Wrapped(text) == << "<p>" >> \o text \o << "</p>" >>

\* the files of the data directory: two patents, a second file of the first
\* patent's number, a patent whose abstract and claims clean to nothing, a file
\* that is no JSON, one whose title is no object, one whose document is an
\* array, and one whose text the embedding model fails on
CorpusFiles ==
   { File("P1", << Item(<< "T", "1" >>) >>,
          << Item(Wrapped(<< "c", "o", "o", "l", " ", " ", "c", "h", "i", "p" >>)) >>,
          << ClaimsGroup(<< Item(<< "<b>", "c", "1", "</b>" >>) >>) >>,
          << Item(Wrapped(<< "D", "1", ".", " ", "m", "o", "r", "e" >>)) >>),
     File("P2", << Item(<< "T", "2" >>) >>,
          << Item(<< "h", "e", "a", "t" >>) >>,
          << >>,
          << Item(<< " ", "\n" >>) >>),
     File("P1", << Item(<< "T", "1", "b" >>) >>,
          << >>,
          << ClaimsGroup(<< Item(<< "c", "2" >>) >>) >>,
          << >>),
     File("P3", << Item(<< "T", "3" >>) >>,
          << Item(Wrapped(<< " ", "\n" >>)) >>,
          << ClaimsGroup(<< Item(<< "<br/>" >>) >>) >>,
          << Item(<< "D", "3" >>) >>),
     [File("P4", << >>, << >>, << >>, << >>) EXCEPT !.parse = FALSE],
     File("P5", << NotADict >>, << Item(<< "x" >>) >>, << >>, << >>),
     [File("P6", << >>, << Item(<< "y" >>) >>, << >>, << >>) EXCEPT !.shape = "array"],
     [File("P7", << >>, << Item(<< "z" >>) >>, << >>, << >>) EXCEPT !.embedFault = TRUE] }

\* abstracts, claims groups and descriptions of the inputs of extract_patent_data
AbstractInputs == { << >>, << Item(<< >>) >>, << Item(Wrapped(<< "a", "\t", " ", "b" >>)) >> }

ClaimsInputs ==
   { << >>,
     << ClaimsGroup(<< Item(<< " " >>) >>) >>,
     << ClaimsGroup([k \in 1..(MaxClaims + 1) |-> Item(<< "c", " " >>)]) >>,
     << ClaimsGroup(<< Item(<< "c" >>), NotADict >>) >> }

\* descriptions whose cleaned text is empty, short, and just under, at and over
\* the description budget, with markup and whitespace around the cut
DescriptionInputs ==
   { << >>,
     << NotADict >>,
     << Item(<< >>) >>,
     << Item(<< "d" >>) >>,
     << Item(Rep("d", MaxDescription - 1)) >>,
     << Item(Rep("d", MaxDescription)) >>,
     << Item(Rep("d", MaxDescription + 1)) >>,
     << Item(Rep("d", MaxDescription + 500)) >>,
     << Item(Wrapped(Rep("d", MaxDescription + 1))) >>,
     << Item(<< " " >> \o Rep("d", MaxDescription) \o << " ", "\n" >>) >>,
     << Item(Rep("d", 1000) \o << " ", "\n", " " >> \o Rep("e", 1000)) >>,
     << Item(Rep("d", MaxDescription - 1) \o << " ", "<b>", "e", "</b>" >>) >> }

ExtractInputs ==
   { File("P9", << Item(<< "T" >>) >>, a, c, d) :
        a \in AbstractInputs, c \in ClaimsInputs, d \in DescriptionInputs }
   \cup { [File("P9", << >>, << >>, << >>, << >>) EXCEPT !.shape = "array"] }

\* a processed document as the service's API receives it
ApiDoc(id, title) ==
   WithEmbedding([patent_number |-> id, title |-> title, abstract |-> << "a" >>,
                  claims |-> << "c" >>, description |-> << "D", "." >> \o title,
                  searchable_text |-> << "a", " ", "c" >>])

ApiDocs == { ApiDoc(id, title) : id \in {"P1", "P2", "P3"}, title \in {<< "A" >>, << "B" >>} }

\* what the store's add does with an empty batch and with an id it holds
StoreEnvs == [rejectsEmpty : BOOLEAN, rejectsExisting : BOOLEAN]

\* cosine distances, in units of 10^-5, around the rounding ties and the range
DistValues == {0, 5, 15, 16, One + 5, 2 * One}

\* the distances the store reports while the application serves
ServingDistValues == {5, One + 5}

\* queries that pass the request surface's min_length=3
Queries == { << " ", " ", " " >>, << "c", "h", "i", "p" >> }

(***************************************************************************)
(* State                                                                   *)
(***************************************************************************)

VARIABLES
   dbExists,       \* the persisted store holds the collection
   dbEntries,      \* the collection's entries, in insertion order
   collection,     \* self.collection of the SearchService: "None" or "bound"
   pc,             \* the process: "down", "started", "serving", "failed"
   dataPath,       \* the data directory exists
   corpus,         \* the JSON files of the data directory
   loaded,         \* the last load_and_process_documents of startup_event
   startup,        \* the last startup_event: what it found and whether it indexed
   response,       \* the response of the last /search request
   api,            \* the last call made on the SearchService's API
   descriptions,   \* the argument of summarize_descriptions
   provider,       \* the behaviour of the generative provider for this call
   fallbackFault,  \* TRUE when the body of _simple_summarization raises
   summary,        \* the outcome of summarize_descriptions: [raised, value]
   groqCalls,      \* calls of _summarize_with_groq made by the last call
   fallbackCalls,  \* calls of _simple_summarization made by the last call
   sumPc,          \* "idle" before summarize_descriptions, "done" after it
   raw,            \* the argument of extract_patent_data
   extracted,      \* the outcome of extract_patent_data
   exPc            \* "idle" before extract_patent_data, "done" after it

storeVars == << dbExists, dbEntries, collection >>

appVars == << pc, dataPath, corpus, loaded, startup, response >>

sumVars == << descriptions, provider, fallbackFault, summary, groqCalls, fallbackCalls, sumPc >>

exVars == << raw, extracted, exPc >>

vars == << storeVars, appVars, api, sumVars, exVars >>

NotLoaded == [called |-> FALSE, raised |-> FALSE, documents |-> << >>]

\* startup_event has not run in this process
NoStartup == [ran |-> FALSE, hadCollection |-> FALSE, countBefore |-> 0, indexCalled |-> FALSE]

NoSummary == [raised |-> FALSE, value |-> << >>]

NoResponse == [status |-> 0, thrown |-> "none", top_documents |-> << >>, summary |-> << >>]

NoCall ==
   [op |-> "none", raised |-> FALSE, batch |-> << >>, prior |-> << >>, top_k |-> 0,
    fault |-> FALSE, matches |-> << >>, results |-> << >>, value |-> FALSE]

NoExtract == [kind |-> "idle", doc |-> NoRecord]

\* the state of the parts a specification does not exercise
StoreIdle == dbExists = FALSE /\ dbEntries = << >> /\ collection = "None"

AppIdle ==
   /\ pc = "down" /\ dataPath = FALSE /\ corpus = << >> /\ loaded = NotLoaded
   /\ startup = NoStartup
   /\ response = NoResponse

SumIdle ==
   /\ descriptions = << >> /\ provider = [kind |-> "error", content |-> << >>]
   /\ fallbackFault = FALSE /\ summary = NoSummary /\ groqCalls = 0
   /\ fallbackCalls = 0 /\ sumPc = "idle"

ExIdle == raw = File("", << >>, << >>, << >>, << >>) /\ extracted = NoExtract /\ exPc = "idle"

(***************************************************************************)
(* SummarizationService.summarize_descriptions on its own                  *)
(***************************************************************************)

SummarizeDescriptions ==
   /\ sumPc = "idle"
   /\ LET r == summarize_descriptions(descriptions, provider, fallbackFault)
      IN  /\ summary' = [raised |-> r.raised, value |-> r.value]
          /\ groqCalls' = r.groq
          /\ fallbackCalls' = r.fallback
   /\ sumPc' = "done"
   /\ UNCHANGED << descriptions, provider, fallbackFault >>
   /\ UNCHANGED << storeVars, appVars, api, exVars >>

InitSum ==
   /\ descriptions \in ListsUpTo(PassageSet, MaxPassages)
   /\ provider \in ProviderBehaviours
   /\ fallbackFault \in BOOLEAN
   /\ summary = NoSummary
   /\ groqCalls = 0
   /\ fallbackCalls = 0
   /\ sumPc = "idle"
   /\ StoreIdle /\ AppIdle /\ api = NoCall /\ ExIdle

NextSum == SummarizeDescriptions

SpecSum == InitSum /\ [][NextSum]_vars

(***************************************************************************)
(* DataProcessor.extract_patent_data on its own                            *)
(***************************************************************************)

ExtractPatentData ==
   /\ exPc = "idle"
   /\ extracted' = extract_patent_data(raw)
   /\ exPc' = "done"
   /\ UNCHANGED raw
   /\ UNCHANGED << storeVars, appVars, api, sumVars >>

InitExtract ==
   /\ raw \in ExtractInputs
   /\ extracted = NoExtract
   /\ exPc = "idle"
   /\ StoreIdle /\ AppIdle /\ api = NoCall /\ SumIdle

NextExtract == ExtractPatentData

SpecExtract == InitExtract /\ [][NextExtract]_vars

(***************************************************************************)
(* The SearchService's API, called in any order                            *)
(***************************************************************************)

\* SearchService(): bind the collection if the store holds it
ApiConstruct ==
   /\ api.op = "none"
   /\ collection' = IF dbExists THEN "bound" ELSE "None"
   /\ api' = [NoCall EXCEPT !.op = "construct"]
   /\ UNCHANGED << dbExists, dbEntries >>
   /\ UNCHANGED << appVars, sumVars, exVars >>

\* index_documents(batch)
ApiIndexDocuments ==
   /\ api.op = "none"
   /\ \E batch \in ListsUpTo(ApiDocs, MaxBatch), env \in StoreEnvs :
      LET r == index_documents(collection, dbExists, dbEntries, batch, env)
      IN  /\ collection' = r.collection
          /\ dbExists' = r.exists
          /\ dbEntries' = r.entries
          /\ api' = [NoCall EXCEPT !.op = "index", !.raised = r.raised, !.batch = batch,
                                   !.prior = Ids(dbEntries)]
          /\ UNCHANGED << appVars, sumVars, exVars >>

\* search(query, top_k)
ApiSearch ==
   /\ api.op = "none"
   /\ \E top_k \in 0..MaxTopK, dist \in [1..Len(dbEntries) -> DistValues], fault \in BOOLEAN :
      LET r == search(collection, dbEntries, top_k, dist, fault)
      IN  /\ api' = [NoCall EXCEPT !.op = "search", !.raised = r.raised, !.top_k = top_k,
                                   !.fault = fault, !.matches = r.matches,
                                   !.results = r.results]
          /\ UNCHANGED << storeVars, appVars, sumVars, exVars >>

\* is_indexed()
ApiIsIndexed ==
   /\ api.op = "none"
   /\ api' = [NoCall EXCEPT !.op = "is_indexed", !.value = is_indexed(collection, dbEntries)]
   /\ UNCHANGED << storeVars, appVars, sumVars, exVars >>

\* the caller takes the outcome of the call
ApiReturn ==
   /\ api.op # "none"
   /\ api' = NoCall
   /\ UNCHANGED << storeVars, appVars, sumVars, exVars >>

InitApi == StoreIdle /\ AppIdle /\ api = NoCall /\ SumIdle /\ ExIdle

NextApi == ApiConstruct \/ ApiIndexDocuments \/ ApiSearch \/ ApiIsIndexed \/ ApiReturn

SpecApi == InitApi /\ [][NextApi]_vars

(***************************************************************************)
(* The application: process start, startup_event, /search, process stop    *)
(***************************************************************************)

\* the module-level code of app.py: the services are constructed
StartProcess ==
   /\ pc = "down"
   /\ collection' = IF dbExists THEN "bound" ELSE "None"
   /\ pc' = "started"
   /\ loaded' = NotLoaded
   /\ startup' = NoStartup
   /\ response' = NoResponse
   /\ UNCHANGED << dbExists, dbEntries, dataPath, corpus >>
   /\ UNCHANGED << api, sumVars, exVars >>

\* startup_event: load and index unless the store is indexed; an exception of
\* either ends the application's startup
StartupEvent ==
   /\ pc = "started"
   /\ IF is_indexed(collection, dbEntries)
      THEN /\ pc' = "serving"
           /\ startup' = [ran |-> TRUE, hadCollection |-> collection # "None",
                          countBefore |-> Len(dbEntries), indexCalled |-> FALSE]
           /\ UNCHANGED << storeVars, loaded >>
      ELSE LET l == load_and_process_documents(dataPath, corpus)
           IN  /\ loaded' = [called |-> TRUE, raised |-> l.raised, documents |-> l.documents]
               /\ startup' = [ran |-> TRUE, hadCollection |-> collection # "None",
                              countBefore |-> Len(dbEntries), indexCalled |-> ~l.raised]
               /\ IF l.raised
                  THEN /\ pc' = "failed"
                       /\ UNCHANGED storeVars
                  ELSE \E env \in StoreEnvs :
                          LET r == index_documents(collection, dbExists, dbEntries,
                                                   l.documents, env)
                          IN  /\ collection' = r.collection
                              /\ dbExists' = r.exists
                              /\ dbEntries' = r.entries
                              /\ pc' = IF r.raised THEN "failed" ELSE "serving"
   /\ UNCHANGED << dataPath, corpus, response >>
   /\ UNCHANGED << api, sumVars, exVars >>

\* GET /search?query=...
SearchRequest ==
   /\ pc = "serving"
   /\ \E query \in Queries, dist \in [1..Len(dbEntries) -> ServingDistValues],
         fault \in BOOLEAN, behaviour \in ProviderBehaviours, fbFault \in BOOLEAN :
         response' = search_endpoint(query, collection, dbEntries, dist, fault,
                                     behaviour, fbFault)
   /\ UNCHANGED << storeVars, pc, dataPath, corpus, loaded, startup >>
   /\ UNCHANGED << api, sumVars, exVars >>

\* the process ends; the store stays
StopProcess ==
   /\ pc # "down"
   /\ pc' = "down"
   /\ collection' = "None"
   /\ UNCHANGED << dbExists, dbEntries, dataPath, corpus, loaded, startup, response >>
   /\ UNCHANGED << api, sumVars, exVars >>

Init ==
   /\ StoreIdle
   /\ pc = "down"
   /\ dataPath \in BOOLEAN
   /\ corpus \in ListsUpTo(CorpusFiles, MaxFiles)
   /\ loaded = NotLoaded
   /\ startup = NoStartup
   /\ response = NoResponse
   /\ api = NoCall /\ SumIdle /\ ExIdle

Next == StartProcess \/ StartupEvent \/ SearchRequest \/ StopProcess

Spec == Init /\ [][Next]_vars

(***************************************************************************)
(* Properties                                                              *)
(***************************************************************************)

\* the entries of the collection whose id is id
EntriesOf(id) == SelectSeq(dbEntries, LAMBDA e : e.patent_number = id)

\* C1: a record indexed again under a patent_number the index already holds
\* leaves exactly one entry for that id, the call does not raise, and the
\* stored metadata is that of the second call.
C1_IdempotentIndexing ==
   (api.op = "index" /\ Cardinality(Range(Ids(api.batch))) = Len(api.batch))
      => \A k \in 1..Len(api.batch) :
            api.batch[k].patent_number \in Range(api.prior)
               => /\ ~api.raised
                  /\ Len(EntriesOf(api.batch[k].patent_number)) = 1
                  /\ EntriesOf(api.batch[k].patent_number)[1].metadata
                        = Metadata(api.batch[k])

\* C2: at /search, a valid query with an empty result list is answered with
\* status 404, and every other internal failure with status 500.
C2_NotFoundDistinct ==
   /\ response.thrown = "HTTPException404" => response.status = 404
   /\ response.thrown = "Exception" => response.status = 500

\* every description is empty or whitespace only (the empty list included)
AllBlank(descs) == \A k \in 1..Len(descs) : \A i \in 1..Len(descs[k]) : IsSpace(descs[k][i])

\* C3 as claimed: the empty list and every list of blank entries get one and
\* the same sentinel message, the one of the empty list, without any call of
\* the provider or the fallback.
C3_OneSentinel ==
   (sumPc = "done" /\ AllBlank(descriptions))
      => /\ summary.value = NoDescriptionsMsg
         /\ groqCalls = 0 /\ fallbackCalls = 0

\* C3: the empty list gets the sentinel "No descriptions available ..." and a
\* non-empty list of blank entries gets the sentinel "No valid descriptions
\* found ..."; in neither case is the provider or the fallback called.
C3_Sentinels ==
   (sumPc = "done" /\ AllBlank(descriptions))
      => /\ ~summary.raised
         /\ summary.value = IF descriptions = << >> THEN NoDescriptionsMsg ELSE NoValidMsg
         /\ groqCalls = 0 /\ fallbackCalls = 0

\* a list with an empty and a whitespace-only entry was summarized
C3_Witness ==
   /\ sumPc = "done"
   /\ descriptions = << << >>, << " ", " " >> >>
   /\ summary.value = NoValidMsg

\* the primary provider call raised for a list with a non-blank passage, and
\* the fallback's own processing did not
FallbackCase ==
   /\ sumPc = "done"
   /\ ~AllBlank(descriptions)
   /\ provider.kind # "ok"
   /\ ~fallbackFault

\* s contains t
Contains(s, t) == \E i \in 0..(Len(s) - Len(t)) : SubSeq(s, i + 1, i + Len(t)) = t

\* C4 as claimed: after a provider failure the returned string is non-empty,
\* contains the disclosure note and ends in a period.
C4_EndsInPeriod ==
   FallbackCase
      => /\ ~summary.raised
         /\ summary.value # << >>
         /\ Contains(summary.value, fallback_note)
         /\ summary.value[Len(summary.value)] = "."

\* C4: after a provider failure the returned string is an extract that ends in
\* a period followed by the disclosure note, which ends the string.
C4_Fallback ==
   FallbackCase
      => /\ ~summary.raised
         /\ groqCalls = 1 /\ fallbackCalls = 1
         /\ EndsWith(summary.value, << "." >> \o fallback_note)

\* the fallback ran on a text whose first sentence has 500 characters
C4_Witness ==
   /\ FallbackCase
   /\ descriptions = << Rep("a", 500) \o << ".", " ", "b" >> >>
   /\ summary.value = << "." >> \o fallback_note

\* C6: summarize_descriptions returns a string whatever the provider does and
\* raises nothing; when the fallback itself raises, the string is the
\* error description.
C6_NeverRaises ==
   sumPc = "done"
      => /\ ~summary.raised
         /\ summary.value \in Seq(STRING)
         /\ (fallbackCalls = 1 /\ fallbackFault)
               => SubSeq(summary.value, 1, Len(FallbackErrorPrefix)) = FallbackErrorPrefix

\* the provider's response was malformed and the fallback raised
C6_Witness ==
   /\ sumPc = "done"
   /\ provider.kind = "malformed"
   /\ fallbackCalls = 1 /\ fallbackFault
   /\ ~summary.raised
   /\ EndsWith(summary.value, << ":", " ", "e" >>)

\* a search with a positive top_k in which neither the embedding model nor
\* the store failed
SearchCase == api.op = "search" /\ api.top_k > 0 /\ ~api.fault

\* C5 as claimed: search on an index of zero entries, its collection created
\* or not, returns the empty list and does not raise.
C5_EmptyIndex ==
   (SearchCase /\ Len(dbEntries) = 0) => (~api.raised /\ api.results = << >>)

\* C5: search on a collection that exists and holds zero entries returns the
\* empty list and does not raise; search without a collection raises.
C5_EmptyCollection ==
   SearchCase
      => /\ (collection = "bound" /\ Len(dbEntries) = 0)
               => (~api.raised /\ api.results = << >>)
         /\ collection = "None" => api.raised

\* a search on a collection that exists and is empty
C5_Witness ==
   /\ SearchCase
   /\ collection = "bound" /\ dbExists /\ dbEntries = << >>
   /\ ~api.raised /\ api.results = << >>

\* C7: the list search returns is at most top_k long, keeps the store's order,
\* gives each result the score 1 - distance rounded to 4 digits, and its
\* scores do not increase from the first element to the last.
C7_ScoreMonotonicity ==
   (api.op = "search" /\ ~api.raised)
      => /\ Len(api.results) <= api.top_k
         /\ Len(api.results) = Len(api.matches)
         /\ \A k \in 1..Len(api.results) :
               /\ api.results[k].patent_number = api.matches[k].metadata.patent_number
               /\ 10 * api.results[k].score - (One - api.matches[k].distance) \in -5..5
         /\ \A k \in 1..(Len(api.matches) - 1) :
               api.matches[k].distance <= api.matches[k + 1].distance
         /\ \A k \in 1..(Len(api.results) - 1) :
               api.results[k].score >= api.results[k + 1].score

\* a search cut to top_k with both equal and different scores in its list
C7_Witness ==
   /\ api.op = "search" /\ ~api.raised
   /\ Len(dbEntries) = 3 /\ api.top_k = 2 /\ Len(api.results) = 2
   /\ api.results[1].score > api.results[2].score
   /\ api.matches[1].distance > 0

\* the abstract and the claims taken from the file are both empty once cleaned
EmptyText(file) ==
   /\ file.abstracts # << >> => clean_html_content(file.abstracts[1].value) = << >>
   /\ file.claims # << >>
         => \A k \in 1..Len(FirstClaims(file.claims[1])) :
               clean_html_content(FirstClaims(file.claims[1])[k].value) = << >>

\* the file is a JSON object whose parts have the expected shape
WellFormed(file) == file.parse /\ file.shape = "object" /\ ~ExtractRaises(file)

\* C8: a record whose abstract and claims are both empty after cleaning is
\* not in the output of load_and_process_documents, is not added to the index
\* and is not counted; every entry of the index has a non-empty text.
C8_EmptyTextExclusion ==
   LET NonEmptyFiles == {i \in 1..Len(corpus) : WellFormed(corpus[i]) /\ ~EmptyText(corpus[i])}
       FromNonEmpty(id) == \E i \in NonEmptyFiles : corpus[i].patent_number = id
   IN  /\ \A k \in 1..Len(loaded.documents) :
             /\ loaded.documents[k].searchable_text # << >>
             /\ FromNonEmpty(loaded.documents[k].patent_number)
       /\ \A k \in 1..Len(dbEntries) :
             /\ dbEntries[k].document # << >>
             /\ FromNonEmpty(dbEntries[k].patent_number)
       /\ Len(loaded.documents) <= Cardinality(NonEmptyFiles)
       /\ Len(dbEntries) <= Cardinality(NonEmptyFiles)

\* a corpus of an empty-text record and another one was loaded and indexed
C8_Witness ==
   /\ pc = "serving" /\ loaded.called
   /\ Len(corpus) = 2
   /\ WellFormed(corpus[1]) /\ EmptyText(corpus[1])
   /\ Len(loaded.documents) = 1 /\ Len(dbEntries) = 1

\* C9: extract_patent_data returns a cleaned description of at most 2000
\* characters as it is, and a longer one as its first 2000 characters followed
\* by "..." (2003 characters); the record is produced in both cases.
C9_Truncation ==
   (exPc = "done" /\ WellFormed(raw) /\ raw.descriptions # << >>)
      => /\ extracted.kind = "doc"
         /\ LET cleaned == clean_html_content(raw.descriptions[1].value)
                description == extracted.doc.description
            IN  /\ Len(cleaned) <= 2000 => description = cleaned
                /\ Len(cleaned) > 2000
                      => /\ Len(description) = 2003
                         /\ SubSeq(description, 1, 2000) = SubSeq(cleaned, 1, 2000)
                         /\ SubSeq(description, 2001, 2003) = << ".", ".", "." >>

\* a description cut inside a whitespace run of the markup
C9_Witness ==
   /\ exPc = "done" /\ extracted.kind = "doc"
   /\ Len(extracted.doc.description) = 2003
   /\ extracted.doc.description[2000] = " "

\* the file goes through json.load, extract_patent_data and encode without an
\* exception and has a non-empty searchable text
Survives(file) == WellFormed(file) /\ ~EmptyText(file) /\ ~file.embedFault

\* C10: a failure while loading, normalising or embedding one record skips
\* that record only: load_and_process_documents does not raise and returns, in
\* the files' order, exactly the records that did not fail and have a
\* non-empty searchable text.
C10_FailureIsolation ==
   (loaded.called /\ dataPath)
      => /\ ~loaded.raised
         /\ Ids(loaded.documents) = Ids(SelectSeq(corpus, Survives))
         /\ \A k \in 1..Len(loaded.documents) :
               loaded.documents[k].embedding = Encode(loaded.documents[k].searchable_text)

\* a file that fails is followed by one that is loaded
C10_Witness ==
   /\ loaded.called /\ dataPath
   /\ Len(corpus) = 2
   /\ ~Survives(corpus[1]) /\ ~EmptyText(corpus[1]) /\ Survives(corpus[2])
   /\ Len(loaded.documents) = 1
\* the store was not indexed when the last startup_event began: no collection,
\* or a collection of zero entries
FoundUnindexed == ~startup.hadCollection \/ startup.countBefore = 0

====
